---- MODULE Spec2Model ----
(***************************************************************************)
(* PDF-to-Notion: the text-to-block reflow pipeline.                       *)
(*                                                                         *)
(*   Strategy A  textToNotionBlocks   (client, paragraph classifier)       *)
(*   Strategy B  parsePDF             (server, geometric reflow)           *)
(*   Publish     handleSendToNotion + POST /api/notion/create              *)
(*                                                                         *)
(* A JavaScript string is modelled as a sequence of runs [c, n]: the       *)
(* character c repeated n >= 1 times.  The string is the concatenation of  *)
(* its runs, so a 100-character paragraph is two or three runs and the     *)
(* length test of the classifier is computed on real lengths.              *)
(***************************************************************************)
EXTENDS Integers, Sequences, FiniteSets, TLC

VARIABLES
    pc,             \* position of the running operation
    text,           \* Strategy A: the input text
    blocks,         \* Strategy A: textToNotionBlocks(text)
    rerun,          \* Strategy A: textToNotionBlocks of the rejoined block texts
    pages,          \* Strategy B: data.pages of the extraction collaborator
    parsed,         \* Strategy B: the value parsePDF returns
    variant,        \* which POST /api/notion/create handler is deployed
    parsedContent,  \* client state: parsedContent (metadata.title only)
    file,           \* client state: the selected file (its name) or Null
    processedBlocks,\* client state: processedBlocks
    request,        \* body of the POST /api/notion/create request in flight
    notionCall,     \* argument of notion.pages.create, once called
    response,       \* HTTP status answered by /api/notion/create
    responseContent,\* salvage: the raw text of the generation response
    plainText,      \* salvage: the text /api/ai/structure answers
    isLoading,      \* client state: isLoading
    error,          \* client state: error
    notionStatus,   \* client state: notionStatus
    upload,         \* client: the handleUpload call in flight, or NoValue
    sending,        \* client: the body of the publish request in flight
    convs,          \* client: the number of handleUpload calls so far
    steps,          \* client: the steps of the conversions, in order
    producedBy,     \* client: the conversions that stored the content
    clock,          \* upload server: Date.now(), in milliseconds
    disk,           \* upload server: the files of uploads/, by name
    uploads         \* upload server: the POST /api/upload requests

\* the variables of the parts added to the pipeline model after publishing
salvageVars == <<responseContent, plainText>>

clientVars ==
    <<isLoading, error, notionStatus, upload, sending, convs, steps,
      producedBy>>

uploadVars == <<clock, disk, uploads>>

otherVars == <<salvageVars, clientVars, uploadVars>>

vars == <<pc, text, blocks, rerun, pages, parsed, variant, parsedContent,
          file, processedBlocks, request, notionCall, response, otherVars>>

\* null or undefined, for a variable that holds a string
Null == "null"

\* null or undefined, for a variable that holds an object or an array
NoValue == [kind |-> "null"]

\* an array value
JsArray(items) == [kind |-> "array", items |-> items]

-----------------------------------------------------------------------------
(* Strings                                                                 *)

LF == "\n"
Bullet == "U+2022"

\* the characters String.prototype.trim and the regexp class \s remove
IsSpace(c) == c \in {" ", LF}

\* a string literal, one run per character
Str(chars) == [i \in 1..Len(chars) |-> [c |-> chars[i], n |-> 1]]

Rep(c, n) == <<[c |-> c, n |-> n]>>

RECURSIVE StrLen(_)
StrLen(s) == IF s = <<>> THEN 0 ELSE s[1].n + StrLen(Tail(s))

RECURSIVE TrimStart(_)
TrimStart(s) ==
    IF s # <<>> /\ IsSpace(s[1].c) THEN TrimStart(Tail(s)) ELSE s

RECURSIVE TrimEnd(_)
TrimEnd(s) ==
    IF s # <<>> /\ IsSpace(s[Len(s)].c)
    THEN TrimEnd(SubSeq(s, 1, Len(s) - 1))
    ELSE s

Trim(s) == TrimEnd(TrimStart(s))

StartsWith(s, c) == s # <<>> /\ s[1].c = c

EndsWith(s, c) == s # <<>> /\ s[Len(s)].c = c

\* s without its first character
DropChar(s) ==
    IF s[1].n > 1
    THEN <<[c |-> s[1].c, n |-> s[1].n - 1]>> \o Tail(s)
    ELSE Tail(s)

\* s.replace(/^[•-]\s*/, '')
StripMarker(s) ==
    IF StartsWith(s, Bullet) \/ StartsWith(s, "-")
    THEN TrimStart(DropChar(s))
    ELSE s

\* every run of n line feeds written as n runs of one
RECURSIVE ExpandLF(_)
ExpandLF(s) ==
    IF s = <<>> THEN <<>>
    ELSE IF s[1].c = LF /\ s[1].n > 1
         THEN <<[c |-> LF, n |-> 1]>>
              \o ExpandLF(<<[c |-> LF, n |-> s[1].n - 1]>> \o Tail(s))
         ELSE <<s[1]>> \o ExpandLF(Tail(s))

RECURSIVE SplitFrom(_, _, _)
SplitFrom(s, i, cur) ==
    IF i > Len(s) THEN <<cur>>
    ELSE IF i < Len(s) /\ s[i].c = LF /\ s[i + 1].c = LF
         THEN <<cur>> \o SplitFrom(s, i + 2, <<>>)
         ELSE SplitFrom(s, i + 1, Append(cur, s[i]))

\* mutant: split on every line feed
SplitEveryLine(s) ==
    LET e == ExpandLF(s)
        RECURSIVE From(_, _)
        From(i, cur) ==
            IF i > Len(e) THEN <<cur>>
            ELSE IF e[i].c = LF THEN <<cur>> \o From(i + 1, <<>>)
                 ELSE From(i + 1, Append(cur, e[i]))
    IN  From(1, <<>>)

\* s.split('\n\n')
SplitBlank(s) == SplitFrom(ExpandLF(s), 1, <<>>)

\* strs.join(sep)
RECURSIVE Join(_, _)
Join(strs, sep) ==
    IF strs = <<>> THEN <<>>
    ELSE IF Len(strs) = 1 THEN strs[1]
         ELSE strs[1] \o sep \o Join(Tail(strs), sep)

-----------------------------------------------------------------------------
(* Strategy A: textToNotionBlocks                                          *)

HeadingMaxLen == 100

\* mutant: the empty segments are not filtered out
ParagraphsUnfiltered(t) == SplitBlank(t)

\* mutant: the filter keeps every non-empty segment
NonEmptySegment(p) == p # <<>>

\* the segments that survive .filter(p => p.trim())
NonBlank(p) == Trim(p) # <<>>

Paragraphs(t) == SelectSeq(SplitBlank(t), NonBlank)

\* paragraph.length < 100 && !paragraph.endsWith('.'), on the segment as split
LooksLikeHeading(paragraph) ==
    StrLen(paragraph) < HeadingMaxLen /\ ~EndsWith(paragraph, ".")

LooksLikeBullet(paragraph) ==
    StartsWith(Trim(paragraph), Bullet) \/ StartsWith(Trim(paragraph), "-")

\* mutant: the bullet test made before the heading test
ClassifyParagraphBulletFirst(paragraph) ==
    IF LooksLikeBullet(paragraph)
    THEN [type |-> "bulleted_list_item",
          text |-> StripMarker(Trim(paragraph))]
    ELSE IF LooksLikeHeading(paragraph)
         THEN [type |-> "heading_2", text |-> Trim(paragraph)]
         ELSE [type |-> "paragraph", text |-> Trim(paragraph)]

ClassifyParagraph(paragraph) ==
    IF LooksLikeHeading(paragraph)
    THEN [type |-> "heading_2", text |-> Trim(paragraph)]
    ELSE IF LooksLikeBullet(paragraph)
         THEN [type |-> "bulleted_list_item",
               text |-> StripMarker(Trim(paragraph))]
         ELSE [type |-> "paragraph", text |-> Trim(paragraph)]

textToNotionBlocks(t) ==
    LET paragraphs == Paragraphs(t)
    IN  [i \in 1..Len(paragraphs) |-> ClassifyParagraph(paragraphs[i])]

\* the text fields of a block sequence, rejoined with blank lines
Rejoin(bs) ==
    Join([i \in 1..Len(bs) |-> bs[i].text], Str(<<LF, LF>>))

-----------------------------------------------------------------------------
(* Inputs of Strategy A                                                    *)

MaxLen == 4

BoundedSeq(S, n) == UNION {[1..k -> S] : k \in 0..n}

\* a run just below the heading limit, so that one more character reaches it
LongRun == HeadingMaxLen - 1

Alphabet ==
    {[c |-> "a", n |-> 1], [c |-> "a", n |-> LongRun],
     [c |-> " ", n |-> 1], [c |-> " ", n |-> LongRun],
     [c |-> ".", n |-> 1], [c |-> "-", n |-> 1], [c |-> Bullet, n |-> 1],
     [c |-> LF, n |-> 1]}

\* "- item one\n\n- item two"
ScenarioBullets ==
    Str(<<"-", " ", "i", "t", "e", "m", " ", "o", "n", "e", LF, LF,
          "-", " ", "i", "t", "e", "m", " ", "t", "w", "o">>)

\* "a\n\n \n\n\n\nb.": four segments, the second blank, the third empty
ScenarioSegments ==
    Str(<<"a", LF, LF, " ", LF, LF, LF, LF, "b", ".">>)

Texts == BoundedSeq(Alphabet, MaxLen) \cup {ScenarioBullets, ScenarioSegments}

IdleB == pages = <<>> /\ parsed = NoValue

IdlePublish ==
    /\ variant = Null
    /\ parsedContent = NoValue
    /\ file = Null
    /\ processedBlocks = NoValue
    /\ request = NoValue
    /\ notionCall = NoValue
    /\ response = NoValue

IdleSalvage == responseContent = <<>> /\ plainText = <<>>

IdleClient ==
    /\ isLoading = FALSE
    /\ error = Null
    /\ notionStatus = Null
    /\ upload = NoValue
    /\ sending = NoValue
    /\ convs = 0
    /\ steps = <<>>
    /\ producedBy = [content |-> 0, blocks |-> 0]

IdleUpload == clock = 0 /\ disk = <<>> /\ uploads = <<>>

\* the parts added after publishing are at rest
IdleOther == IdleSalvage /\ IdleClient /\ IdleUpload

InitA ==
    /\ pc = "A_start"
    /\ text \in Texts
    /\ blocks = <<>>
    /\ rerun = <<>>
    /\ IdleB
    /\ IdlePublish
    /\ IdleOther

\* const blocks = textToNotionBlocks(aiData.text)
Classify ==
    /\ pc = "A_start"
    /\ blocks' = textToNotionBlocks(text)
    /\ pc' = "A_classified"
    /\ UNCHANGED <<otherVars, text, rerun, pages, parsed, variant, parsedContent, file,
                   processedBlocks, request, notionCall, response>>

\* Strategy A applied again to the rejoined text fields of its own output
Reclassify ==
    /\ pc = "A_classified"
    /\ rerun' = textToNotionBlocks(Rejoin(blocks))
    /\ pc' = "A_reclassified"
    /\ UNCHANGED <<otherVars, text, blocks, pages, parsed, variant, parsedContent, file,
                   processedBlocks, request, notionCall, response>>

NextA == Classify \/ Reclassify

SpecA == InitA /\ [][NextA]_vars

Classified == pc \in {"A_classified", "A_reclassified"}

\* the trimmed text of the i-th surviving segment of the input
P(i) == Trim(Paragraphs(text)[i])

BulletPrefixed(s) == StartsWith(s, Bullet) \/ StartsWith(s, "-")

\* C2: every paragraph P with length < 100 that does not end in '.' is
\* emitted as a Heading, bullet-prefixed or not.
C2_ShortUnpunctuatedIsHeading ==
    Classified =>
        \A i \in 1..Len(Paragraphs(text)) :
            (StrLen(P(i)) < HeadingMaxLen /\ ~EndsWith(P(i), "."))
                => blocks[i].type = "heading_2"

\* C3: every paragraph P with length >= 100 or ending in '.', and not
\* bullet-prefixed, is emitted as a Paragraph.
C3_LongOrPunctuatedIsParagraph ==
    Classified =>
        \A i \in 1..Len(Paragraphs(text)) :
            ((StrLen(P(i)) >= HeadingMaxLen \/ EndsWith(P(i), "."))
              /\ ~BulletPrefixed(P(i)))
                => blocks[i].type = "paragraph"

\* C4 (as stated): "- item one\n\n- item two" gives two BulletItem blocks
\* with texts "item one" and "item two".
C4_ScenarioGivesBullets ==
    (Classified /\ text = ScenarioBullets) =>
        blocks = <<[type |-> "bulleted_list_item",
                    text |-> Str(<<"i", "t", "e", "m", " ", "o", "n", "e">>)],
                   [type |-> "bulleted_list_item",
                    text |-> Str(<<"i", "t", "e", "m", " ", "t", "w", "o">>)]>>

\* C4 (amended): "- item one\n\n- item two" gives two Heading blocks whose
\* texts keep the marker: "- item one" and "- item two".
C4_ScenarioGivesHeadings ==
    (Classified /\ text = ScenarioBullets) =>
        blocks = <<[type |-> "heading_2",
                    text |-> Str(<<"-", " ", "i", "t", "e", "m", " ",
                                   "o", "n", "e">>)],
                   [type |-> "heading_2",
                    text |-> Str(<<"-", " ", "i", "t", "e", "m", " ",
                                   "t", "w", "o">>)]>>

C4_Witness == Classified /\ text = ScenarioBullets /\ Len(blocks) = 2

HasBlankLine(t) ==
    LET e == ExpandLF(t)
    IN  \E i \in 1..(Len(e) - 1) : e[i].c = LF /\ e[i + 1].c = LF

\* C5 (as stated): every non-empty text without a blank-line separator gives
\* exactly one block.
C5_NonEmptyNoSeparatorOneBlock ==
    (Classified /\ text # <<>> /\ ~HasBlankLine(text)) => Len(blocks) = 1

\* C5 (amended): every text that has a non-whitespace character and no
\* blank-line separator gives exactly one block.
C5_NonBlankNoSeparatorOneBlock ==
    (Classified /\ Trim(text) # <<>> /\ ~HasBlankLine(text))
        => Len(blocks) = 1

C5_Witness ==
    /\ Classified
    /\ Trim(text) # <<>>
    /\ ~HasBlankLine(text)
    /\ \E i \in 1..Len(text) : text[i].c = LF
    /\ Len(blocks) = 1

\* C6 (as stated): the second run has the length of the first and the same
\* type at every position.
C6_RerunSameTypes ==
    pc = "A_reclassified" =>
        /\ Len(rerun) = Len(blocks)
        /\ \A i \in 1..Len(blocks) : rerun[i].type = blocks[i].type

\* the first-run blocks that still have a text
HasText(b) == b.text # <<>>

Kept == SelectSeq(blocks, HasText)

\* C6 (amended): the second run has one block per first-run block with a
\* non-empty text, in order; it reproduces the type of every Heading whose
\* text does not end in '.' and of every Paragraph whose text ends in '.' or
\* has length >= 100.
C6_RerunStableTypes ==
    pc = "A_reclassified" =>
        /\ Len(rerun) = Len(Kept)
        /\ \A i \in 1..Len(Kept) :
            /\ (Kept[i].type = "heading_2" /\ ~EndsWith(Kept[i].text, "."))
                  => rerun[i].type = "heading_2"
            /\ (Kept[i].type = "paragraph"
                /\ (EndsWith(Kept[i].text, ".")
                    \/ StrLen(Kept[i].text) >= HeadingMaxLen))
                  => rerun[i].type = "paragraph"

C6_Witness ==
    /\ pc = "A_reclassified"
    /\ Len(blocks) = 2
    /\ blocks[1].type = "heading_2" /\ ~EndsWith(blocks[1].text, ".")
    /\ blocks[2].type = "paragraph" /\ EndsWith(blocks[2].text, ".")
    /\ rerun[1].type = "heading_2"
    /\ rerun[2].type = "paragraph"

\* C7: every emitted text is non-empty, has no leading or trailing
\* whitespace, and a BulletItem text holds no bullet marker character.
C7_TextsTrimmedNonEmptyNoMarker ==
    Classified =>
        \A i \in 1..Len(blocks) :
            /\ blocks[i].text # <<>>
            /\ Trim(blocks[i].text) = blocks[i].text
            /\ blocks[i].type = "bulleted_list_item" =>
                   \A k \in 1..Len(blocks[i].text) :
                       blocks[i].text[k].c \notin {Bullet, "-"}

-----------------------------------------------------------------------------
(* Strategy B: parsePDF (server.js, second listing)                        *)

\* mutant: the difference is compared with its sign
AbsForgotten(x) == x

Abs(x) == IF x < 0 THEN -x ELSE x

\* Math.floor(n * 0.7); equal to it for every n below 90, where the
\* floating-point product first falls under the exact one
FloorSeventy(n) == (n * 7) \div 10

LineTolerance == 2

HeadingMinHeight == 10

\* page.content.forEach(item => ...): lastY is <<>> for null, else <<y>>
RECURSIVE GroupFrom(_, _, _, _, _)
GroupFrom(content, i, lines, currentLine, lastY) ==
    IF i > Len(content)
    THEN IF currentLine # <<>> THEN Append(lines, currentLine) ELSE lines
    ELSE LET item == content[i]
             brk == lastY # <<>> /\ Abs(item.y - lastY[1]) > LineTolerance
             lines2 == IF brk /\ currentLine # <<>>
                       THEN Append(lines, currentLine) ELSE lines
             cur2 == IF brk THEN <<>> ELSE currentLine
         IN  GroupFrom(content, i + 1, lines2, Append(cur2, item), <<item.y>>)

GroupLines(content) == GroupFrom(content, 1, <<>>, <<>>, <<>>)

\* line.map(i => i.str).join(' ').trim()
LineText(line) ==
    Trim(Join([i \in 1..Len(line) |-> line[i].str], Str(<<" ">>)))

\* allPageBlocks: the lines of every page
AllPageBlocks(d) == [p \in 1..Len(d) |-> GroupLines(d[p].content)]

HasLines(lines) == lines # <<>>

\* firstLines: the first line text of every page that has a line
FirstLines(d) ==
    LET ne == SelectSeq(AllPageBlocks(d), HasLines)
    IN  [k \in 1..Len(ne) |-> LineText(ne[k][1])]

\* lastLines
LastLines(d) ==
    LET ne == SelectSeq(AllPageBlocks(d), HasLines)
    IN  [k \in 1..Len(ne) |-> LineText(ne[k][Len(ne[k])])]

DigitValue ==
    [c \in {"0", "1", "2", "3", "4", "5", "6", "7", "8", "9"} |->
        CASE c = "0" -> 0 [] c = "1" -> 1 [] c = "2" -> 2 [] c = "3" -> 3
          [] c = "4" -> 4 [] c = "5" -> 5 [] c = "6" -> 6 [] c = "7" -> 7
          [] c = "8" -> 8 [] c = "9" -> 9]

\* a property key that is a canonical array index: Object.entries lists
\* these first, in ascending numeric order (keys of up to nine digits)
IsArrayIndex(s) ==
    /\ s # <<>>
    /\ StrLen(s) <= 9
    /\ \A i \in 1..Len(s) : s[i].c \in DOMAIN DigitValue
    /\ s[1].c = "0" => StrLen(s) = 1

RECURSIVE IndexValue(_, _)
IndexValue(s, acc) ==
    IF s = <<>> THEN acc
    ELSE IndexValue(DropChar(s), acc * 10 + DigitValue[s[1].c])

\* the keys of counts in insertion order: the distinct non-empty lines
RECURSIVE InsertionKeys(_, _)
InsertionKeys(linesArr, keys) ==
    IF linesArr = <<>> THEN keys
    ELSE LET line == Head(linesArr)
             seen == \E k \in 1..Len(keys) : keys[k] = line
         IN  InsertionKeys(Tail(linesArr),
                           IF line # <<>> /\ ~seen THEN Append(keys, line)
                           ELSE keys)

\* ascending sort of a sequence of array-index keys
RECURSIVE SortIndexKeys(_)
SortIndexKeys(keys) ==
    IF keys = <<>> THEN <<>>
    ELSE LET m == CHOOSE k \in 1..Len(keys) :
                      \A j \in 1..Len(keys) :
                          IndexValue(keys[k], 0) <= IndexValue(keys[j], 0)
             rest == [j \in 1..(Len(keys) - 1) |->
                          IF j < m THEN keys[j] ELSE keys[j + 1]]
         IN  <<keys[m]>> \o SortIndexKeys(rest)

NotArrayIndex(s) == ~IsArrayIndex(s)

\* the key order of Object.entries(counts)
EntryKeys(linesArr) ==
    LET keys == InsertionKeys(linesArr, <<>>)
    IN  SortIndexKeys(SelectSeq(keys, IsArrayIndex))
        \o SelectSeq(keys, NotArrayIndex)

\* counts[line]
CountOf(linesArr, line) ==
    Cardinality({i \in 1..Len(linesArr) : linesArr[i] = line})

\* names that counts = {} inherits from Object.prototype (some of them)
InheritedNames ==
    {Str(<<"c", "o", "n", "s", "t", "r", "u", "c", "t", "o", "r">>),
     Str(<<"t", "o", "S", "t", "r", "i", "n", "g">>),
     Str(<<"v", "a", "l", "u", "e", "O", "f">>)}

\* counts[line] = (counts[line] || 0) + 1 yields a number for an own key;
\* for an inherited name the first read is the inherited function, the sum a
\* string, and count >= threshold compares NaN: false for every threshold
CountReaches(linesArr, line, threshold) ==
    line \notin InheritedNames /\ CountOf(linesArr, line) >= threshold

findRepeatedLines(linesArr, pageCount) ==
    LET threshold == FloorSeventy(pageCount)
        Repeated(line) == CountReaches(linesArr, line, threshold)
    IN  SelectSeq(EntryKeys(linesArr), Repeated)

Includes(arr, x) == \E i \in 1..Len(arr) : arr[i] = x

\* mutant: only the repeated footers are skipped
IsRepeatedFootersOnly(t, repeatedHeaders, repeatedFooters) ==
    Includes(repeatedFooters, t)

\* repeatedHeaders.includes(text) || repeatedFooters.includes(text)
IsRepeated(t, repeatedHeaders, repeatedFooters) ==
    Includes(repeatedHeaders, t) \/ Includes(repeatedFooters, t)

\* Math.max(...fontSizes)
MaxHeight(line) ==
    CHOOSE m \in {line[i].height : i \in 1..Len(line)} :
        \A i \in 1..Len(line) : line[i].height <= m

\* mutant: every fragment of the line must have the largest height
IsHeadingAllAtMax(line) ==
    LET maxFont == MaxHeight(line)
    IN  /\ Cardinality({i \in 1..Len(line) : line[i].height = maxFont})
              >= Len(line)
        /\ maxFont > HeadingMinHeight

IsHeading(line) ==
    LET maxFont == MaxHeight(line)
    IN  /\ Cardinality({i \in 1..Len(line) : line[i].height = maxFont})
              >= FloorSeventy(Len(line))
        /\ maxFont > HeadingMinHeight

\* the blocks one line pushes: none, a heading or a paragraph
LineBlocks(line, repeatedHeaders, repeatedFooters) ==
    LET t == LineText(line)
    IN  IF t = <<>> THEN <<>>
        ELSE IF IsRepeated(t, repeatedHeaders, repeatedFooters) THEN <<>>
        ELSE IF IsHeading(line) THEN <<[type |-> "heading_2", text |-> t]>>
        ELSE <<[type |-> "paragraph", text |-> t]>>

RECURSIVE Flatten(_)
Flatten(ss) == IF ss = <<>> THEN <<>> ELSE Head(ss) \o Flatten(Tail(ss))

\* mutant: the pages are walked from the last to the first
BodyBlocksLastPageFirst(d, repeatedHeaders, repeatedFooters) ==
    LET apb == AllPageBlocks(d)
        all == Flatten([p \in 1..Len(apb) |-> apb[Len(apb) + 1 - p]])
    IN  Flatten([k \in 1..Len(all) |->
                    LineBlocks(all[k], repeatedHeaders, repeatedFooters)])

\* allPageBlocks.forEach(lines => lines.forEach(line => ...))
BodyBlocks(d, repeatedHeaders, repeatedFooters) ==
    LET all == Flatten(AllPageBlocks(d))
    IN  Flatten([k \in 1..Len(all) |->
                    LineBlocks(all[k], repeatedHeaders, repeatedFooters)])

\* mutant: the first repeated footer is not pushed
parsePDFFooterForgotten(d) ==
    LET repeatedHeaders == findRepeatedLines(FirstLines(d), Len(d))
        repeatedFooters == findRepeatedLines(LastLines(d), Len(d))
        body == BodyBlocks(d, repeatedHeaders, repeatedFooters)
        top == IF repeatedHeaders # <<>>
               THEN <<[type |-> "paragraph", text |-> repeatedHeaders[1]]>>
               ELSE <<>>
    IN  [blocks |-> top \o body,
         metadata |-> [pageCount |-> Len(d),
                       repeatedHeaders |-> repeatedHeaders,
                       repeatedFooters |-> repeatedFooters]]

parsePDF(d) ==
    LET repeatedHeaders == findRepeatedLines(FirstLines(d), Len(d))
        repeatedFooters == findRepeatedLines(LastLines(d), Len(d))
        body == BodyBlocks(d, repeatedHeaders, repeatedFooters)
        top == IF repeatedHeaders # <<>>
               THEN <<[type |-> "paragraph", text |-> repeatedHeaders[1]]>>
               ELSE <<>>
        bottom == IF repeatedFooters # <<>>
                  THEN <<[type |-> "paragraph", text |-> repeatedFooters[1]]>>
                  ELSE <<>>
    IN  [blocks |-> top \o body \o bottom,
         metadata |-> [pageCount |-> Len(d),
                       repeatedHeaders |-> repeatedHeaders,
                       repeatedFooters |-> repeatedFooters]]

-----------------------------------------------------------------------------
(* Inputs of Strategy B                                                    *)

MaxItems == 4

MaxCountPages == 5

\* the page count of the counting scenario: ten pages
ScenarioPageCount == 2 * 5

Frag(s, y, h) == [str |-> s, y |-> y, height |-> h]

\* an item that is no fragment: it ends the page
PageBreak == [str |-> <<>>, y |-> -1, height |-> 0]

\* fragments of two texts (one of them a page number), on two base lines,
\* in two sizes, a blank fragment, and a fragment whose text is a name that
\* objects inherit
FragSet ==
    {Frag(Str(<<s>>), y, h) : s \in {"H", "7"}, y \in {0, 3}, h \in {10, 12}}
    \cup {Frag(Str(<<" ">>), y, 10) : y \in {0, 3}}
    \cup {Frag(Str(<<"t", "o", "S", "t", "r", "i", "n", "g">>), 0, 12)}

\* the pages an item list describes: a page break ends a page
RECURSIVE Paginate(_, _, _)
Paginate(items, i, cur) ==
    IF i > Len(items) THEN <<[content |-> cur]>>
    ELSE IF items[i] = PageBreak
         THEN <<[content |-> cur]>> \o Paginate(items, i + 1, <<>>)
         ELSE Paginate(items, i + 1, Append(cur, items[i]))

Docs ==
    {<<>>} \cup {Paginate(it, 1, <<>>) :
                    it \in BoundedSeq(FragSet \cup {PageBreak}, MaxItems)}

\* three pages for counting: header H and footer F; the single line H; the
\* single line "constructor"
CountPages ==
    {[content |-> <<Frag(Str(<<"H">>), 0, 12), Frag(Str(<<"F">>), 9, 10)>>],
     [content |-> <<Frag(Str(<<"H">>), 0, 12)>>],
     [content |-> <<Frag(Str(<<"c", "o", "n", "s", "t", "r", "u", "c", "t",
                              "o", "r">>), 0, 10)>>]}

CountDocs ==
    BoundedSeq(CountPages, MaxCountPages)
    \cup [1..ScenarioPageCount -> CountPages]

IdleA == text = <<>> /\ blocks = <<>> /\ rerun = <<>>

InitB ==
    /\ pc = "B_start"
    /\ pages \in Docs
    /\ parsed = NoValue
    /\ IdleA
    /\ IdlePublish
    /\ IdleOther

InitBCount ==
    /\ pc = "B_start"
    /\ pages \in CountDocs
    /\ parsed = NoValue
    /\ IdleA
    /\ IdlePublish
    /\ IdleOther

\* const parsedData = await parsePDF(req.file.path)
ParsePDF ==
    /\ pc = "B_start"
    /\ parsed' = parsePDF(pages)
    /\ pc' = "B_parsed"
    /\ UNCHANGED <<otherVars, text, blocks, rerun, pages, variant, parsedContent, file,
                   processedBlocks, request, notionCall, response>>

\* fs.readFile or pdfExtract.extract rejects: parsePDF rethrows
ExtractFails ==
    /\ pc = "B_start"
    /\ parsed' = [error |-> "ExtractionFailed"]
    /\ pc' = "B_failed"
    /\ UNCHANGED <<otherVars, text, blocks, rerun, pages, variant, parsedContent, file,
                   processedBlocks, request, notionCall, response>>

NextB == ParsePDF \/ ExtractFails

SpecB == InitB /\ [][NextB]_vars

SpecBCount == InitBCount /\ [][NextB]_vars

\* the number of pages whose first (last) line has the text t
FirstLineCount(t) ==
    Cardinality({p \in 1..Len(pages) :
        LET lines == GroupLines(pages[p].content)
        IN  lines # <<>> /\ LineText(lines[1]) = t})

LastLineCount(t) ==
    Cardinality({p \in 1..Len(pages) :
        LET lines == GroupLines(pages[p].content)
        IN  lines # <<>> /\ LineText(lines[Len(lines)]) = t})

\* the candidate header (footer) strings: the non-empty first (last) lines
SeqSet(q) == {q[i] : i \in 1..Len(q)}

HeaderCandidates == SeqSet(FirstLines(pages)) \ {<<>>}

FooterCandidates == SeqSet(LastLines(pages)) \ {<<>>}

NoDuplicates(q) == \A i, j \in 1..Len(q) : q[i] = q[j] => i = j

\* C9: a non-empty candidate is reported as a repeated header (footer) iff
\* the number of pages whose first (last) line equals it is at least
\* floor(pageCount * 0.7); nothing else is reported; headers and footers are
\* counted separately.
C9_ReportedIffCountReachesThreshold ==
    pc = "B_parsed" =>
        LET md == parsed.metadata
            thr == (md.pageCount * 7) \div 10
        IN  /\ md.pageCount = Len(pages)
            /\ SeqSet(md.repeatedHeaders) =
                   {t \in HeaderCandidates : FirstLineCount(t) >= thr}
            /\ SeqSet(md.repeatedFooters) =
                   {t \in FooterCandidates : LastLineCount(t) >= thr}
            /\ NoDuplicates(md.repeatedHeaders)
            /\ NoDuplicates(md.repeatedFooters)

\* the same rule for the candidates that are no inherited name of counts
CountRuleForOwnNames ==
    pc = "B_parsed" =>
        LET md == parsed.metadata
            thr == (md.pageCount * 7) \div 10
        IN  /\ md.pageCount = Len(pages)
            /\ SeqSet(md.repeatedHeaders) =
                   {t \in HeaderCandidates \ InheritedNames :
                       FirstLineCount(t) >= thr}
            /\ SeqSet(md.repeatedFooters) =
                   {t \in FooterCandidates \ InheritedNames :
                       LastLineCount(t) >= thr}
            /\ NoDuplicates(md.repeatedHeaders)
            /\ NoDuplicates(md.repeatedFooters)

\* ten pages: a header on exactly 7 of them is reported, a footer on exactly
\* 6 of them is not
TenPagesSevenAndSix ==
    /\ pc = "B_parsed"
    /\ Len(pages) = 10
    /\ \E t \in HeaderCandidates :
           FirstLineCount(t) = 7 /\ t \in SeqSet(parsed.metadata.repeatedHeaders)
    /\ \E t \in FooterCandidates :
           LastLineCount(t) = 6 /\ t \notin SeqSet(parsed.metadata.repeatedFooters)

\* the blocks between the prepended header and the appended footer
BodyOf(res) ==
    LET h == IF res.metadata.repeatedHeaders # <<>> THEN 1 ELSE 0
        f == IF res.metadata.repeatedFooters # <<>> THEN 1 ELSE 0
    IN  SubSeq(res.blocks, 1 + h, Len(res.blocks) - f)

Occurrences(bs, t) == Cardinality({i \in 1..Len(bs) : bs[i].text = t})

\* the non-empty texts that are the first line of at least one page and of
\* at least floor(0.7 * pageCount) pages
QualifyingHeaders ==
    {t \in HeaderCandidates : FirstLineCount(t) >= (Len(pages) * 7) \div 10}

\* some line other than the first of its page has the text t
OccursBelowFirstLine(t) ==
    \E p \in 1..Len(pages) :
        LET lines == GroupLines(pages[p].content)
        IN  \E k \in 2..Len(lines) : LineText(lines[k]) = t

\* C8 (as stated): every line text that is the first line of at least
\* floor(0.7 * pageCount) pages is excluded from the body blocks and appears
\* exactly once in the emitted sequence, as its first block.
C8_RepeatedFirstLineOnceAsFirstBlock ==
    pc = "B_parsed" =>
        \A t \in QualifyingHeaders :
            /\ Occurrences(BodyOf(parsed), t) = 0
            /\ Occurrences(parsed.blocks, t) = 1
            /\ parsed.blocks[1].text = t

\* C8 (amended): every text reported as a repeated header is the first line
\* of at least floor(0.7 * pageCount) pages and is excluded from the body
\* blocks; the first reported header is emitted once as the first block, a
\* Paragraph; the other reported headers are not emitted as headers; a text
\* that is also the first reported footer appears once more, as the last
\* block.
C8_RepeatedFirstLineExcludedFirstOneEmitted ==
    pc = "B_parsed" =>
        LET rh == parsed.metadata.repeatedHeaders
            rf == parsed.metadata.repeatedFooters
        IN  \A t \in SeqSet(rh) :
                /\ t \in QualifyingHeaders
                /\ Occurrences(BodyOf(parsed), t) = 0
                /\ parsed.blocks[1] = [type |-> "paragraph", text |-> rh[1]]
                /\ Occurrences(parsed.blocks, t) =
                       (IF t = rh[1] THEN 1 ELSE 0)
                       + (IF rf # <<>> /\ rf[1] = t THEN 1 ELSE 0)

C8_Witness ==
    /\ pc = "B_parsed"
    /\ Len(parsed.metadata.repeatedHeaders) = 2
    /\ \E t \in SeqSet(parsed.metadata.repeatedHeaders) :
           OccursBelowFirstLine(t) /\ parsed.blocks[1].text = t

-----------------------------------------------------------------------------
(* Publishing: handleSendToNotion and POST /api/notion/create              *)

ClientBlockLimit == 100

ServerBlockLimit == 100

Min(a, b) == IF a < b THEN a ELSE b

\* arr.slice(start, end), for 0 <= start
Slice(arr, start, end) == SubSeq(arr, start + 1, Min(end, Len(arr)))

\* JavaScript truthiness of a title or file name
Truthy(x) == x \notin {Null, ""}

\* a value of the request's blocks field that is not an array
NotAnArray == [kind |-> "string"]

\* Array.isArray(x)
IsArray(x) == x.kind = "array"

\* the three listings of the handler
Variants == {"server.js:137", "part_001:126", "server.js:471"}

\* { object: 'block', type: t, [t]: { rich_text: [{ type: 'text', text: { content } }] } }
NotionShape(t, content) ==
    [object |-> "block", type |-> t, key |-> t,
     rich_text |-> <<[type |-> "text", text |-> [content |-> content]]>>]

\* blocks.map callback of server.js:145 and part_001:153
toNotionBlock(block) ==
    IF block.type = "heading_2"
    THEN NotionShape("heading_2", block.text)
    ELSE IF block.type = "bulleted_list_item"
         THEN NotionShape("bulleted_list_item", block.text)
         ELSE NotionShape("paragraph", block.text)

\* blocks.map callback of server.js:479
toNotionBlockSecond(block) ==
    IF block.type = "heading_2"
    THEN NotionShape("heading_2", block.text)
    ELSE NotionShape("paragraph", block.text)

NotionBlocks(v, bs) ==
    [i \in 1..Len(bs) |->
        IF v = "server.js:471" THEN toNotionBlockSecond(bs[i])
        ELSE toNotionBlock(bs[i])]

\* mutant: the children are not cut to the limit
ServerChildrenNoLimit(notionBlocks) == notionBlocks

\* children: notionBlocks.slice(0, 100)
ServerChildren(notionBlocks) == Slice(notionBlocks, 0, ServerBlockLimit)

\* parsedContent.metadata.title || file?.name || 'PDF to Notion Page'
ClientTitle ==
    IF Truthy(parsedContent.metadata.title) THEN parsedContent.metadata.title
    ELSE IF Truthy(file) THEN file
    ELSE "PDF to Notion Page"

\* handleSendToNotion, no content: the early return
SendWithoutContent ==
    /\ pc = "P_idle"
    /\ parsedContent = NoValue \/ processedBlocks = NoValue
    /\ pc' = "P_done"
    /\ UNCHANGED <<otherVars, text, blocks, rerun, pages, parsed, variant, parsedContent,
                   file, processedBlocks, request, notionCall, response>>

\* handleSendToNotion: the fetch of /api/notion/create
SendToNotion ==
    /\ pc = "P_idle"
    /\ parsedContent # NoValue /\ processedBlocks # NoValue
    /\ request' =
           [title |-> ClientTitle,
            blocks |-> JsArray(Slice(processedBlocks.items, 0,
                                     ClientBlockLimit))]
    /\ pc' = "P_posted"
    /\ UNCHANGED <<otherVars, text, blocks, rerun, pages, parsed, variant, parsedContent,
                   file, processedBlocks, notionCall, response>>

\* any other HTTP client posting a title and blocks of its own
DirectPost ==
    /\ pc = "P_idle"
    /\ processedBlocks # NoValue
    /\ \E t \in {"", "Direct"}, b \in {processedBlocks, NotAnArray, NoValue} :
           request' = [title |-> t, blocks |-> b]
    /\ pc' = "P_posted"
    /\ UNCHANGED <<otherVars, text, blocks, rerun, pages, parsed, variant, parsedContent,
                   file, processedBlocks, notionCall, response>>

\* !title || !blocks || !Array.isArray(blocks)
MissingTitleOrBlocks(req) ==
    ~Truthy(req.title) \/ req.blocks = NoValue \/ ~IsArray(req.blocks)

\* POST /api/notion/create: the 400 answer
CreateRejects ==
    /\ pc = "P_posted"
    /\ MissingTitleOrBlocks(request)
    /\ response' = [status |-> 400]
    /\ pc' = "P_done"
    /\ UNCHANGED <<otherVars, text, blocks, rerun, pages, parsed, variant, parsedContent,
                   file, processedBlocks, request, notionCall>>

\* POST /api/notion/create: up to the call of notion.pages.create
CreateCallsNotion ==
    /\ pc = "P_posted"
    /\ ~MissingTitleOrBlocks(request)
    /\ notionCall' =
           [title |-> request.title,
            children |->
                ServerChildren(NotionBlocks(variant, request.blocks.items))]
    /\ pc' = "P_calling"
    /\ UNCHANGED <<otherVars, text, blocks, rerun, pages, parsed, variant, parsedContent,
                   file, processedBlocks, request, response>>

\* notion.pages.create resolves: res.json(...)
NotionAccepts ==
    /\ pc = "P_calling"
    /\ response' = [status |-> 200]
    /\ pc' = "P_done"
    /\ UNCHANGED <<otherVars, text, blocks, rerun, pages, parsed, variant, parsedContent,
                   file, processedBlocks, request, notionCall>>

\* notion.pages.create rejects: the catch answers 500
NotionRejects ==
    /\ pc = "P_calling"
    /\ response' = [status |-> 500]
    /\ pc' = "P_done"
    /\ UNCHANGED <<otherVars, text, blocks, rerun, pages, parsed, variant, parsedContent,
                   file, processedBlocks, request, notionCall>>

-----------------------------------------------------------------------------
(* Inputs of publishing                                                    *)

MaxBlocks == 150

\* a block sequence of n blocks with pairwise different texts ("a" repeated
\* i times for the i-th block) and the types of pat, cyclically
MakeBlocks(n, pat) ==
    [i \in 1..n |-> [type |-> pat[((i - 1) % Len(pat)) + 1],
                     text |-> Rep("a", i)]]

TypePatterns ==
    {<<"heading_2", "bulleted_list_item", "paragraph", "numbered_list_item">>,
     <<"paragraph">>}

BlockSeqs ==
    {JsArray(MakeBlocks(n, pat)) : n \in 0..MaxBlocks, pat \in TypePatterns}

InitPublish ==
    /\ pc = "P_idle"
    /\ variant \in Variants
    /\ \/ /\ parsedContent \in
                 {[metadata |-> [title |-> t]] : t \in {Null, "", "Doc"}}
          /\ processedBlocks \in BlockSeqs
          /\ file = Null
       \/ /\ parsedContent = NoValue
          /\ processedBlocks \in BlockSeqs \cup {NoValue}
          /\ file \in {Null, "a.pdf"}
    /\ request = NoValue
    /\ notionCall = NoValue
    /\ response = NoValue
    /\ IdleA
    /\ IdleB
    /\ IdleOther

NextPublish ==
    \/ SendWithoutContent
    \/ SendToNotion
    \/ DirectPost
    \/ CreateRejects
    \/ CreateCallsNotion
    \/ NotionAccepts
    \/ NotionRejects

SpecPublish == InitPublish /\ [][NextPublish]_vars

\* C1: the children sent to the publishing collaborator are the first
\* min(n, 100) blocks of the caller's sequence, in their original order,
\* whether the request was cut by the client first or not.
C1_ChildrenAreFirstHundredInOrder ==
    notionCall # NoValue =>
        /\ Len(notionCall.children) = Min(Len(processedBlocks.items), 100)
        /\ \A i \in 1..Len(notionCall.children) :
               notionCall.children[i].rich_text[1].text.content
                   = processedBlocks.items[i].text

\* 150 blocks posted uncut: the server sends exactly 100
C1_Witness ==
    /\ notionCall # NoValue
    /\ Len(processedBlocks.items) = 150
    /\ Len(request.blocks.items) = 150
    /\ Len(notionCall.children) = 100
    /\ notionCall.children[100].rich_text[1].text.content = Rep("a", 100)

\* the external shape the claim gives a block type
ExpectedShape(block) ==
    IF block.type \in {"heading_2", "bulleted_list_item"}
    THEN block.type ELSE "paragraph"

\* C10: every child has the shape of its block's type (heading_2,
\* bulleted_list_item, else paragraph), with one rich-text run holding the
\* block text.
C10_EachTypeMapsToItsShape ==
    notionCall # NoValue =>
        \A i \in 1..Len(notionCall.children) :
            LET child == notionCall.children[i]
                block == request.blocks.items[i]
            IN  /\ child.object = "block"
                /\ child.type = ExpectedShape(block)
                /\ child.key = ExpectedShape(block)
                /\ child.rich_text =
                       <<[type |-> "text", text |-> [content |-> block.text]]>>

\* the request carries a title string and a list of blocks
TitleAndBlockList(req) ==
    req # NoValue /\ req.blocks # NoValue /\ IsArray(req.blocks)

\* C11: for every title string (the empty one included) and every list of
\* blocks (the empty one and blocks of unknown type included) the handler
\* reaches notion.pages.create with a payload; it answers no error of its own.
C11_PayloadAlwaysBuilt ==
    (pc \in {"P_calling", "P_done"} /\ TitleAndBlockList(request))
        => notionCall # NoValue

\* an empty title with a list of blocks is answered with 400
EmptyTitleRejected ==
    /\ pc = "P_done"
    /\ TitleAndBlockList(request)
    /\ request.title = ""
    /\ response = [status |-> 400]
    /\ notionCall = NoValue

\* with a non-empty title, the empty list and blocks of unknown type reach
\* the publish call
NonEmptyTitleAlwaysBuilt ==
    (pc \in {"P_calling", "P_done"} /\ TitleAndBlockList(request)
     /\ request.title # "")
        => /\ notionCall # NoValue
           /\ notionCall.title = request.title
           /\ Len(notionCall.children)
                  = Min(Len(request.blocks.items), ServerBlockLimit)

-----------------------------------------------------------------------------
(* AI-response salvage: POST /api/ai/structure (part_001)                  *)
(*                                                                         *)
(* The response is a string of the same kind as above.  A code-fence       *)
(* marker and a JSON literal (an object, a string, null) stand as one      *)
(* character each; the brackets and commas of an array are characters of   *)
(* their own, so that the array grammar is parsed and not looked up.       *)

\* the three backquotes of a Markdown code fence
Fence == "fence"

\* a JSON object with the fields salvage reads
Obj(paragraph, heading1, flat) ==
    [kind |-> "object", paragraph |-> paragraph, heading_1 |-> heading1,
     text |-> flat]

\* { rich_text: [{ text: { content } }] }
RichText(content) == [rich_text |-> <<[text |-> [content |-> content]]>>]

\* { rich_text: [] } and { rich_text: [{}] }
RichTextEmpty == [rich_text |-> <<>>]

RichTextNoText == [rich_text |-> <<[text |-> NoValue]>>]

Word(w) == Str(<<w>>)

\* the value of every JSON literal of the responses; an absent or empty
\* string field is <<>>
Literal ==
    [tok \in {"null", "\"Hi\"", "{}", "{text:Hello}", "{text:Bye}",
              "{paragraph:Para}", "{heading_1:Head}",
              "{paragraph:{rich_text:[]},text:Flat}",
              "{paragraph:{rich_text:[{}]},text:Flat}",
              "{paragraph:{rich_text:[{text:{}}]},text:Flat}"} |->
        CASE tok = "null" -> NoValue
          [] tok = "\"Hi\"" -> [kind |-> "string"]
          [] tok = "{}" -> Obj(NoValue, NoValue, <<>>)
          [] tok = "{text:Hello}" -> Obj(NoValue, NoValue, Word("Hello"))
          [] tok = "{text:Bye}" -> Obj(NoValue, NoValue, Word("Bye"))
          [] tok = "{paragraph:Para}" ->
                 Obj(RichText(Word("Para")), NoValue, <<>>)
          [] tok = "{heading_1:Head}" ->
                 Obj(NoValue, RichText(Word("Head")), <<>>)
          [] tok = "{paragraph:{rich_text:[]},text:Flat}" ->
                 Obj(RichTextEmpty, NoValue, Word("Flat"))
          [] tok = "{paragraph:{rich_text:[{}]},text:Flat}" ->
                 Obj(RichTextNoText, NoValue, Word("Flat"))
          [] tok = "{paragraph:{rich_text:[{text:{}}]},text:Flat}" ->
                 Obj(RichText(<<>>), NoValue, Word("Flat"))]

\* s.split('\n')
RECURSIVE LinesFrom(_, _, _)
LinesFrom(s, i, cur) ==
    IF i > Len(s) THEN <<cur>>
    ELSE IF s[i].c = LF THEN <<cur>> \o LinesFrom(s, i + 1, <<>>)
         ELSE LinesFrom(s, i + 1, Append(cur, s[i]))

SplitLines(s) == LinesFrom(ExpandLF(s), 1, <<>>)

\* line.trim().startsWith(fence)
IsFenceLine(line) == StartsWith(Trim(line), Fence)

NotFenceLine(line) == ~IsFenceLine(line)

\* cleaned.split('\n').filter(line => !line.trim().startsWith(fence)).join('\n')
StripFences(s) == Join(SelectSeq(SplitLines(s), NotFenceLine), Str(<<LF>>))

\* the fence lines are removed only from a response that starts with one
Cleaned(s) == IF StartsWith(Trim(s), Fence) THEN StripFences(s) ELSE s

ParseFailure == [ok |-> FALSE, value |-> NoValue, next |-> 0]

RECURSIVE SkipSpace(_, _)
SkipSpace(s, i) ==
    IF i <= Len(s) /\ IsSpace(s[i].c) THEN SkipSpace(s, i + 1) ELSE i

\* one JSON value from position i: a literal or an array of values
RECURSIVE ParseValue(_, _)
RECURSIVE ParseElements(_, _, _)
ParseValue(s, i) ==
    LET j == SkipSpace(s, i)
    IN  IF j > Len(s) THEN ParseFailure
        ELSE IF s[j].c \in DOMAIN Literal
             THEN [ok |-> TRUE, value |-> Literal[s[j].c], next |-> j + 1]
        ELSE IF s[j].c = "["
             THEN LET k == SkipSpace(s, j + 1)
                  IN  IF k <= Len(s) /\ s[k].c = "]"
                      THEN [ok |-> TRUE, value |-> JsArray(<<>>),
                            next |-> k + 1]
                      ELSE ParseElements(s, k, <<>>)
        ELSE ParseFailure

\* the elements of an array from position i, up to its closing bracket
ParseElements(s, i, acc) ==
    LET r == ParseValue(s, i)
    IN  IF ~r.ok THEN ParseFailure
        ELSE LET k == SkipSpace(s, r.next)
             IN  IF k > Len(s) THEN ParseFailure
                 ELSE IF s[k].c = ","
                      THEN ParseElements(s, k + 1, Append(acc, r.value))
                 ELSE IF s[k].c = "]"
                      THEN [ok |-> TRUE,
                            value |-> JsArray(Append(acc, r.value)),
                            next |-> k + 1]
                 ELSE ParseFailure

\* JSON.parse(s): one value and nothing but white space around it
JsonParse(s) ==
    LET r == ParseValue(s, 1)
    IN  IF r.ok /\ SkipSpace(s, r.next) > Len(s) THEN r ELSE ParseFailure

\* x && x.rich_text && x.rich_text[0] && x.rich_text[0].text
HasRichText(x) ==
    x # NoValue /\ x.rich_text # <<>> /\ x.rich_text[1].text # NoValue

\* the map callback; <<>> is '' or undefined
ExtractText(block) ==
    IF block.kind # "object" THEN <<>>
    ELSE IF HasRichText(block.paragraph)
         THEN block.paragraph.rich_text[1].text.content
    ELSE IF HasRichText(block.heading_1)
         THEN block.heading_1.rich_text[1].text.content
    ELSE block.text

\* block.paragraph of a null element throws a TypeError
MapThrows(items) == \E i \in 1..Len(items) : items[i] = NoValue

NonEmptyString(t) == t # <<>>

\* parsed.map(...).filter(Boolean).join('\n\n')
JoinTexts(items) ==
    Join(SelectSeq([i \in 1..Len(items) |-> ExtractText(items[i])],
                   NonEmptyString),
         Str(<<LF, LF>>))

\* mutant: the fence-stripped text is answered when it does not parse
SalvageTextKeepsCleaned(raw) ==
    LET r == JsonParse(Cleaned(raw))
    IN  IF ~r.ok THEN Cleaned(raw)
        ELSE IF r.value.kind # "array" THEN raw
        ELSE IF MapThrows(r.value.items) THEN raw
        ELSE JoinTexts(r.value.items)

\* part_001:278-311, the value of plainText after the try / catch
SalvageText(raw) ==
    LET r == JsonParse(Cleaned(raw))
    IN  IF ~r.ok THEN raw
        ELSE IF r.value.kind # "array" THEN raw
        ELSE IF MapThrows(r.value.items) THEN raw
        ELSE JoinTexts(r.value.items)

-----------------------------------------------------------------------------
(* Inputs of salvage                                                       *)

MaxLines == 3

\* the lines a response is made of
ResponseLines ==
    {Str(<<Fence, "json">>), Str(<<Fence>>), Str(<<" ", Fence>>),
     Str(<<"Hello", " ", "world">>), <<>>,
     Str(<<"[">>), Str(<<"]">>), Str(<<"{text:Hello}">>), Str(<<"\"Hi\"">>),
     Str(<<"[", "{text:Hello}", "]">>),
     Str(<<"[", "{text:Hello}", ",", "{paragraph:Para}", ",", "{}", ",",
           " ", "{heading_1:Head}", ",", "{text:Bye}", "]">>),
     Str(<<"[", "{paragraph:{rich_text:[]},text:Flat}", ",",
           "{paragraph:{rich_text:[{}]},text:Flat}", ",", "\"Hi\"", ",",
           "[", "]", ",", "[", "{text:Bye}", "]", "]">>),
     Str(<<"[", "{paragraph:{rich_text:[{text:{}}]},text:Flat}", "]">>),
     Str(<<"[", "null", "]">>), Str(<<"[", "{}", "]">>),
     Str(<<"[", "{text:Bye}", ",", "]">>)}

Responses ==
    {Join(ls, Str(<<LF>>)) : ls \in BoundedSeq(ResponseLines, MaxLines)}

InitSalvage ==
    /\ pc = "S_start"
    /\ responseContent \in Responses
    /\ plainText = <<>>
    /\ IdleA
    /\ IdleB
    /\ IdlePublish
    /\ IdleClient
    /\ IdleUpload

\* the post-processing of the response and res.json({ text: plainText })
SalvageResponse ==
    /\ pc = "S_start"
    /\ plainText' = SalvageText(responseContent)
    /\ pc' = "S_salvaged"
    /\ UNCHANGED <<responseContent, clientVars, uploadVars, text, blocks,
                   rerun, pages,
                   parsed, variant, parsedContent, file, processedBlocks,
                   request, notionCall, response>>

NextSalvage == SalvageResponse

SpecSalvage == InitSalvage /\ [][NextSalvage]_vars

NotAnArrayValue(r) == ~r.ok \/ r.value.kind # "array"

\* C12: whenever the response, with its fence lines removed (all of them, or
\* those the handler removes), fails to parse as JSON or parses to a value
\* that is not an array, the answered text is the raw response, unchanged.
C12_UnparsedOrNonArrayGivesRaw ==
    pc = "S_salvaged" =>
        ((NotAnArrayValue(JsonParse(StripFences(responseContent)))
          \/ NotAnArrayValue(JsonParse(Cleaned(responseContent))))
            => plainText = responseContent)

\* a fenced response that is no JSON once the fences are gone, and a fenced
\* JSON value that is no array
C12_Witness ==
    /\ pc = "S_salvaged"
    /\ StartsWith(Trim(responseContent), Fence)
    /\ Trim(Cleaned(responseContent)) # <<>>
    /\ Cleaned(responseContent) # responseContent
    /\ \/ ~JsonParse(Cleaned(responseContent)).ok
       \/ JsonParse(Cleaned(responseContent)).value.kind = "object"
    /\ plainText = responseContent

\* the text the claim extracts from an element: the nested rich-text content
\* where the element has one, else the flat text field, else nothing
ClaimedText(elem) ==
    IF elem.kind # "object" THEN <<>>
    ELSE IF HasRichText(elem.paragraph)
         THEN elem.paragraph.rich_text[1].text.content
    ELSE IF HasRichText(elem.heading_1)
         THEN elem.heading_1.rich_text[1].text.content
    ELSE elem.text

ClaimedJoin(items) ==
    Join(SelectSeq([i \in 1..Len(items) |-> ClaimedText(items[i])],
                   NonEmptyString),
         Str(<<LF, LF>>))

\* C13: if the response with every fence line removed parses as a JSON
\* array, the answered text is the blank-line-joined sequence, in array
\* order, of the non-empty texts of the elements.
C13_ArrayGivesJoinedTexts ==
    pc = "S_salvaged" =>
        LET r == JsonParse(StripFences(responseContent))
        IN  (r.ok /\ r.value.kind = "array")
                => plainText = ClaimedJoin(r.value.items)

\* the same for a response that starts with a fence line or has none, and
\* an array without a null element
ArrayGivesJoinedTextsWhenCleaned ==
    pc = "S_salvaged" =>
        LET r == JsonParse(Cleaned(responseContent))
        IN  (r.ok /\ r.value.kind = "array" /\ ~MapThrows(r.value.items))
                => plainText = ClaimedJoin(r.value.items)

\* the fenced array with the one element of text "Hello" gives "Hello"
FencedHelloGivesHello ==
    /\ pc = "S_salvaged"
    /\ responseContent =
           Str(<<Fence, "json", LF, "[", "{text:Hello}", "]", LF, Fence>>)
    /\ plainText = Word("Hello")

\* an array line followed by a fence line is answered raw
TrailingFenceGivesRaw ==
    /\ pc = "S_salvaged"
    /\ responseContent = Str(<<"[", "{text:Hello}", "]", LF, Fence>>)
    /\ plainText = responseContent

\* the response parses, as the handler parses it, to an array none of whose
\* elements carries a text
NoTextRecovered(raw) ==
    LET r == JsonParse(Cleaned(raw))
    IN  /\ r.ok
        /\ r.value.kind = "array"
        /\ \A i \in 1..Len(r.value.items) :
               r.value.items[i] = NoValue
               \/ ClaimedText(r.value.items[i]) = <<>>

\* C21: when the response parses to an array from which no text is
\* recovered (the empty array, or elements without any of the text fields),
\* the answered text is the raw response, unchanged, and not the empty
\* string.
C21_NoTextRecoveredGivesRaw ==
    (pc = "S_salvaged" /\ NoTextRecovered(responseContent))
        => plainText = responseContent

\* what the handler answers then is the empty string, except for an array
\* holding null, whose TypeError gives the raw response
NoTextRecoveredGivesEmptyString ==
    (pc = "S_salvaged" /\ NoTextRecovered(responseContent))
        => LET r == JsonParse(Cleaned(responseContent))
           IN  plainText = IF MapThrows(r.value.items)
                           THEN responseContent ELSE <<>>

\* the empty array and the array of one object without fields are answered
\* with the empty string
EmptyArrayGivesEmptyString ==
    /\ pc = "S_salvaged"
    /\ responseContent = Str(<<"[", LF, "]">>)
    /\ plainText = <<>>

FieldlessObjectGivesEmptyString ==
    /\ pc = "S_salvaged"
    /\ responseContent = Str(<<Fence, "json", LF, "[", "{}", "]", LF, Fence>>)
    /\ plainText = <<>>

\* an array holding only null is answered raw
NullArrayGivesRaw ==
    /\ pc = "S_salvaged"
    /\ responseContent = Str(<<"[", "null", "]">>)
    /\ plainText = responseContent

-----------------------------------------------------------------------------
(* The client: handleFileChange, handleUpload, handleSendToNotion           *)
(* (part_000), with the answers of POST /api/upload and                    *)
(* POST /api/ai/structure.                                                 *)
(*                                                                         *)
(* upload is the handleUpload call in flight: its conversion number, its   *)
(* stage and the last answer it awaits or received.  steps records, per    *)
(* conversion, every request issued, every answer of a collaborator and    *)
(* every run of the classifier.                                            *)

\* the variables the client does not touch
nonClientVars ==
    <<text, blocks, rerun, pages, parsed, variant, request, notionCall,
      response, salvageVars, uploadVars>>

Step(c, s) == [conv |-> c, step |-> s]

\* no answer yet
Pending == [ok |-> FALSE, arrived |-> FALSE]

\* res.json({ message, file, parsedContent: parsedData })
UploadOk(t, title) ==
    [ok |-> TRUE, arrived |-> TRUE, error |-> Null,
     parsedContent |-> [text |-> t, metadata |-> [title |-> title]]]

\* res.status(500).json({ error: 'Error processing PDF', details })
UploadError ==
    [ok |-> FALSE, arrived |-> TRUE, error |-> "Error processing PDF",
     parsedContent |-> NoValue]

\* res.json({ text: plainText }), or an answer without a text field
AiOk(hasText, t) ==
    [ok |-> TRUE, arrived |-> TRUE, error |-> Null, hasText |-> hasText,
     text |-> t]

\* res.status(500).json({ error: 'Failed to structure blocks', details })
AiError ==
    [ok |-> FALSE, arrived |-> TRUE, error |-> "Failed to structure blocks",
     hasText |-> FALSE, text |-> <<>>]

\* mutant: the convert button is disabled only without a file
UploadEnabledWhileLoading == Truthy(file)

\* disabled={!file || isLoading} of the convert button
UploadEnabled == Truthy(file) /\ ~isLoading

\* the send button is rendered with the parsed content, disabled={isLoading}
SendEnabled == parsedContent # NoValue /\ ~isLoading

\* mutant: processedBlocks is not reset when a conversion starts
ProcessedBlocksKept(old) == old

\* setProcessedBlocks(null) at the start of handleUpload
ProcessedBlocksAtStart(old) == NoValue

\* mutant: the answer of the generation request is taken as a success
GenerationSucceededAlways(r) == TRUE

\* aiResponse.ok
GenerationSucceeded(r) == r.ok

\* response.ok
UploadSucceeded(r) == r.ok

\* mutant: the selected file is kept after a conversion
FileKeptAfterConversion(old) == old

\* setFile(null) at the end of a successful handleUpload
FileAfterConversion(old) == Null

\* mutant: setParsedContent is called before the classifier
ParsedContentBeforeClassify(old, data) == data

\* parsedContent when textToNotionBlocks throws: setParsedContent comes
\* after the call and is not reached
ParsedContentWhenClassifyThrows(old, data) == old

MaxConversions == 2

MaxPublishes == 2

FileNames == {"a.pdf", "b.pdf"}

\* the text parsePDF extracts: none, or some
ExtractedTexts == {<<>>, Str(<<"x">>)}

\* the text the generation endpoint answers
GeneratedTexts == {<<>>, Str(<<"a", ".">>), ScenarioBullets}

Publishes == Cardinality({i \in 1..Len(steps) : steps[i].step = "publish"})

InitClient ==
    /\ pc = "C_run"
    /\ file = Null
    /\ parsedContent = NoValue
    /\ processedBlocks = NoValue
    /\ IdleClient
    /\ variant = Null
    /\ request = NoValue
    /\ notionCall = NoValue
    /\ response = NoValue
    /\ IdleA
    /\ IdleB
    /\ IdleSalvage
    /\ IdleUpload

\* handleFileChange with a file chosen
HandleFileChange ==
    /\ \E f \in FileNames : file' = f
    /\ error' = Null
    /\ parsedContent' = NoValue
    /\ producedBy' = [producedBy EXCEPT !.content = 0]
    /\ UNCHANGED <<pc, processedBlocks, isLoading, notionStatus, upload,
                   sending, convs, steps, nonClientVars>>

\* handleUpload up to the fetch of /api/upload
HandleUpload ==
    /\ UploadEnabled
    /\ convs < MaxConversions
    /\ convs' = convs + 1
    /\ isLoading' = TRUE
    /\ error' = Null
    /\ parsedContent' = NoValue
    /\ processedBlocks' = ProcessedBlocksAtStart(processedBlocks)
    /\ producedBy' =
           [content |-> 0,
            blocks |-> IF ProcessedBlocksAtStart(processedBlocks) = NoValue
                       THEN 0 ELSE producedBy.blocks]
    /\ upload' = [conv |-> convs + 1, stage |-> "extracting", file |-> file,
                  answer |-> Pending]
    /\ steps' = Append(steps, Step(convs + 1, "extract"))
    /\ UNCHANGED <<pc, file, notionStatus, sending, nonClientVars>>

\* POST /api/upload: parsePDF resolves, the parsed content is answered
UploadParsed ==
    /\ upload # NoValue
    /\ upload.stage = "extracting"
    /\ ~upload.answer.arrived
    /\ \E t \in ExtractedTexts, title \in {Null, "Doc"} :
           upload' = [upload EXCEPT !.answer = UploadOk(t, title)]
    /\ steps' = Append(steps, Step(upload.conv, "extract_done"))
    /\ UNCHANGED <<pc, file, parsedContent, processedBlocks, isLoading, error,
                   notionStatus, sending, convs, producedBy, nonClientVars>>

\* POST /api/upload: parsePDF throws, the catch answers 500
UploadExtractionFails ==
    /\ upload # NoValue
    /\ upload.stage = "extracting"
    /\ ~upload.answer.arrived
    /\ upload' = [upload EXCEPT !.answer = UploadError]
    /\ steps' = Append(steps, Step(upload.conv, "extract_failed"))
    /\ UNCHANGED <<pc, file, parsedContent, processedBlocks, isLoading, error,
                   notionStatus, sending, convs, producedBy, nonClientVars>>

\* the fetch of /api/upload rejects: .catch rethrows, catch, finally
UploadFetchRejects ==
    /\ upload # NoValue
    /\ upload.stage = "extracting"
    /\ ~upload.answer.arrived
    /\ error' = "Network error"
    /\ isLoading' = FALSE
    /\ upload' = NoValue
    /\ steps' = Append(steps, Step(upload.conv, "extract_failed"))
    /\ UNCHANGED <<pc, file, parsedContent, processedBlocks, notionStatus,
                   sending, convs, producedBy, nonClientVars>>

\* handleUpload after the answer: !response.ok throws, catch, finally
UploadRejected ==
    /\ upload # NoValue
    /\ upload.stage = "extracting"
    /\ upload.answer.arrived
    /\ ~UploadSucceeded(upload.answer)
    /\ error' = upload.answer.error
    /\ isLoading' = FALSE
    /\ upload' = NoValue
    /\ UNCHANGED <<pc, file, parsedContent, processedBlocks, notionStatus,
                   sending, convs, steps, producedBy, nonClientVars>>

\* handleUpload after the answer: no text, the early return
UploadWithoutText ==
    /\ upload # NoValue
    /\ upload.stage = "extracting"
    /\ upload.answer.arrived
    /\ UploadSucceeded(upload.answer)
    /\ upload.answer.parsedContent.text = <<>>
    /\ error' = "No text extracted from PDF to send to AI."
    /\ isLoading' = FALSE
    /\ upload' = NoValue
    /\ UNCHANGED <<pc, file, parsedContent, processedBlocks, notionStatus,
                   sending, convs, steps, producedBy, nonClientVars>>

\* handleUpload after the answer: the fetch of /api/ai/structure
GenerateRequested ==
    /\ upload # NoValue
    /\ upload.stage = "extracting"
    /\ upload.answer.arrived
    /\ UploadSucceeded(upload.answer)
    /\ upload.answer.parsedContent.text # <<>>
    /\ upload' = [conv |-> upload.conv, stage |-> "generating",
                  file |-> upload.file,
                  data |-> upload.answer.parsedContent, answer |-> Pending]
    /\ steps' = Append(steps, Step(upload.conv, "generate"))
    /\ UNCHANGED <<pc, file, parsedContent, processedBlocks, isLoading, error,
                   notionStatus, sending, convs, producedBy, nonClientVars>>

\* POST /api/ai/structure answers a text (or, first listing, none)
AiAnswers ==
    /\ upload # NoValue
    /\ upload.stage = "generating"
    /\ ~upload.answer.arrived
    /\ \/ \E t \in GeneratedTexts :
              upload' = [upload EXCEPT !.answer = AiOk(TRUE, t)]
       \/ upload' = [upload EXCEPT !.answer = AiOk(FALSE, <<>>)]
    /\ steps' = Append(steps, Step(upload.conv, "generate_done"))
    /\ UNCHANGED <<pc, file, parsedContent, processedBlocks, isLoading, error,
                   notionStatus, sending, convs, producedBy, nonClientVars>>

\* POST /api/ai/structure answers 400 or 500
AiFails ==
    /\ upload # NoValue
    /\ upload.stage = "generating"
    /\ ~upload.answer.arrived
    /\ upload' = [upload EXCEPT !.answer = AiError]
    /\ steps' = Append(steps, Step(upload.conv, "generate_failed"))
    /\ UNCHANGED <<pc, file, parsedContent, processedBlocks, isLoading, error,
                   notionStatus, sending, convs, producedBy, nonClientVars>>

\* the fetch of /api/ai/structure rejects: catch, finally
AiFetchRejects ==
    /\ upload # NoValue
    /\ upload.stage = "generating"
    /\ ~upload.answer.arrived
    /\ error' = "Failed to fetch"
    /\ isLoading' = FALSE
    /\ upload' = NoValue
    /\ steps' = Append(steps, Step(upload.conv, "generate_failed"))
    /\ UNCHANGED <<pc, file, parsedContent, processedBlocks, notionStatus,
                   sending, convs, producedBy, nonClientVars>>

\* handleUpload after the answer: !aiResponse.ok throws, catch, finally
GenerationRejected ==
    /\ upload # NoValue
    /\ upload.stage = "generating"
    /\ upload.answer.arrived
    /\ ~GenerationSucceeded(upload.answer)
    /\ error' = upload.answer.error
    /\ isLoading' = FALSE
    /\ upload' = NoValue
    /\ UNCHANGED <<pc, file, parsedContent, processedBlocks, notionStatus,
                   sending, convs, steps, producedBy, nonClientVars>>

\* textToNotionBlocks(undefined): text.split throws, catch, finally
ClassifyThrows ==
    /\ upload # NoValue
    /\ upload.stage = "generating"
    /\ upload.answer.arrived
    /\ GenerationSucceeded(upload.answer)
    /\ ~upload.answer.hasText
    /\ error' = "Cannot read properties of undefined"
    /\ isLoading' = FALSE
    /\ upload' = NoValue
    /\ steps' = Append(steps, Step(upload.conv, "classify"))
    /\ parsedContent' =
           ParsedContentWhenClassifyThrows(parsedContent, upload.data)
    /\ producedBy' =
           [producedBy EXCEPT
                !.content = IF parsedContent' = parsedContent
                            THEN @ ELSE upload.conv]
    /\ UNCHANGED <<pc, file, processedBlocks, notionStatus, sending, convs,
                   nonClientVars>>

\* handleUpload to its end: the blocks and the parsed content are stored
ClassifyAndStore ==
    /\ upload # NoValue
    /\ upload.stage = "generating"
    /\ upload.answer.arrived
    /\ GenerationSucceeded(upload.answer)
    /\ upload.answer.hasText
    /\ processedBlocks' = JsArray(textToNotionBlocks(upload.answer.text))
    /\ parsedContent' = upload.data
    /\ producedBy' = [content |-> upload.conv, blocks |-> upload.conv]
    /\ file' = FileAfterConversion(file)
    /\ isLoading' = FALSE
    /\ upload' = NoValue
    /\ steps' = steps \o <<Step(upload.conv, "classify"),
                          Step(upload.conv, "classify_done")>>
    /\ UNCHANGED <<pc, error, notionStatus, sending, convs, nonClientVars>>

\* handleSendToNotion up to the fetch of /api/notion/create
HandleSendToNotion ==
    /\ SendEnabled
    /\ Publishes < MaxPublishes
    /\ IF processedBlocks = NoValue
       THEN /\ notionStatus' = "No processed content to send to Notion."
            /\ isLoading' = FALSE
            /\ UNCHANGED <<sending, steps>>
       ELSE /\ notionStatus' = Null
            /\ isLoading' = TRUE
            /\ sending' =
                   [title |-> ClientTitle,
                    blocks |-> JsArray(Slice(processedBlocks.items, 0,
                                             ClientBlockLimit))]
            /\ steps' = Append(steps, Step(producedBy.blocks, "publish"))
    /\ UNCHANGED <<pc, file, parsedContent, processedBlocks, error, upload,
                   convs, producedBy, nonClientVars>>

\* handleSendToNotion after the answer, either way, and finally
SendAnswered ==
    /\ sending # NoValue
    /\ \E status \in {"Page created in Notion!",
                      "Failed to create Notion page"} :
           notionStatus' = status
    /\ isLoading' = FALSE
    /\ sending' = NoValue
    /\ UNCHANGED <<pc, file, parsedContent, processedBlocks, error, upload,
                   convs, steps, producedBy, nonClientVars>>

NextClient ==
    \/ HandleFileChange
    \/ HandleUpload
    \/ UploadParsed
    \/ UploadExtractionFails
    \/ UploadFetchRejects
    \/ UploadRejected
    \/ UploadWithoutText
    \/ GenerateRequested
    \/ AiAnswers
    \/ AiFails
    \/ AiFetchRejects
    \/ GenerationRejected
    \/ ClassifyThrows
    \/ ClassifyAndStore
    \/ HandleSendToNotion
    \/ SendAnswered

SpecClient == InitClient /\ [][NextClient]_vars

\* the number of times conversion c made step s
StepCount(c, s) ==
    Cardinality({i \in 1..Len(steps) : steps[i] = Step(c, s)})

\* conversion c made step s before position i
Before(c, s, i) == \E j \in 1..(i - 1) : steps[j] = Step(c, s)

\* C14: in every conversion the extraction request, the generation request
\* and the classification are each made at most once; the generation request
\* is issued after the extraction was answered successfully, the classifier
\* runs after the generation was answered successfully; a publish request is
\* issued only for a conversion whose classification has completed.
C14_OneSequentialChain ==
    \A i \in 1..Len(steps) :
        LET c == steps[i].conv
            s == steps[i].step
        IN  /\ s \in {"extract", "generate", "classify"}
                   => StepCount(c, s) = 1
            /\ s = "extract_done" => Before(c, "extract", i)
            /\ s = "generate" => Before(c, "extract_done", i)
            /\ s = "generate_done" => Before(c, "generate", i)
            /\ s = "classify" => Before(c, "generate_done", i)
            /\ s = "publish" => c >= 1 /\ Before(c, "classify_done", i)

\* two conversions ran their whole chain and each was published
C14_Witness ==
    /\ StepCount(1, "classify_done") = 1
    /\ StepCount(1, "publish") = 1
    /\ StepCount(2, "classify_done") = 1
    /\ StepCount(2, "publish") = 1

FailureSteps == {"extract_failed", "generate_failed"}

\* what holds once a step of a conversion has failed: the conversion makes
\* no later step; the upload endpoint's answer carries an error and no
\* parsed content; until another conversion starts, parsedContent and
\* processedBlocks are null
NothingAfterFailure ==
    \A i \in 1..Len(steps) :
        steps[i].step \in FailureSteps =>
            LET c == steps[i].conv
            IN  /\ \A j \in (i + 1)..Len(steps) : steps[j].conv # c
                /\ c = convs =>
                       parsedContent = NoValue /\ processedBlocks = NoValue
                /\ (upload # NoValue /\ upload.conv = c) =>
                       /\ upload.answer.arrived
                       /\ ~upload.answer.ok
                       /\ upload.answer.error # Null
                       /\ upload.stage = "extracting" =>
                              upload.answer.parsedContent = NoValue

\* the step of handleUpload that ends a failed conversion
EndsFailedConversion ==
    /\ upload # NoValue
    /\ upload' = NoValue
    /\ \E i \in 1..Len(steps') :
           steps'[i].conv = upload.conv /\ steps'[i].step \in FailureSteps

\* C15: a failure of the extraction or of the generation aborts the
\* conversion: no later step of it runs, nothing is stored (the upload
\* endpoint answers an error without parsed content, parsedContent and
\* processedBlocks stay null), and handleUpload ends with a non-null error.
C15_FailureAborts ==
    /\ []NothingAfterFailure
    /\ [][EndsFailedConversion =>
              /\ error' # Null
              /\ ~isLoading'
              /\ parsedContent' = NoValue
              /\ processedBlocks' = NoValue]_vars

\* a conversion fails at the generation step after an earlier one succeeded
C15_Witness ==
    /\ convs = 2
    /\ StepCount(1, "classify_done") = 1
    /\ StepCount(2, "generate_failed") = 1
    /\ upload = NoValue
    /\ error # Null
    /\ parsedContent = NoValue
    /\ processedBlocks = NoValue

-----------------------------------------------------------------------------
(* Concurrent uploads: multer.diskStorage and POST /api/upload             *)
(* (server.js, first listing)                                              *)

\* parsePDF of the first listing: the strings of a page joined by spaces,
\* the pages by blank lines
parsePDFText(d) ==
    [text |->
         Join([p \in 1..Len(d) |->
                  Join([i \in 1..Len(d[p].content) |-> d[p].content[i].str],
                       Str(<<" ">>))],
              Str(<<LF, LF>>)),
     metadata |-> [pageCount |-> Len(d), title |-> Null]]

\* cb(null, Date.now() + path.extname(file.originalname))
StoredName(now, ext) == [ms |-> now, ext |-> ext]

MaxClock == 2

\* the two requests of the claim
Requests == {1, 2}

Extensions == {".pdf", ".PDF"}

\* the uploaded documents: data.pages as the extraction would read them
UploadDocs ==
    {<<[content |-> <<Frag(Str(<<"H">>), 0, 12), Frag(Str(<<"7">>), 0, 12)>>]>>,
     <<[content |-> <<Frag(Str(<<"F">>), 0, 10)>>],
       [content |-> <<Frag(Str(<<"7">>), 3, 10)>>]>>,
     <<[content |-> <<>>]>>}

InitUpload ==
    /\ pc = "U_run"
    /\ clock = 0
    /\ disk = <<>>
    /\ uploads \in
           {[r \in Requests |->
                [stage |-> "received", doc |-> docs[r], ext |-> exts[r],
                 path |-> NoValue, answer |-> NoValue]] :
               docs \in [Requests -> UploadDocs],
               exts \in [Requests -> Extensions]}
    /\ IdleA
    /\ IdleB
    /\ IdlePublish
    /\ IdleSalvage
    /\ IdleClient

\* the variables the upload server does not touch
nonUploadVars ==
    <<pc, text, blocks, rerun, pages, parsed, variant, parsedContent, file,
      processedBlocks, request, notionCall, response, salvageVars,
      clientVars>>

\* a millisecond passes
Tick ==
    /\ clock < MaxClock
    /\ clock' = clock + 1
    /\ UNCHANGED <<disk, uploads, nonUploadVars>>

\* multer calls filename: the name is made of the current millisecond
NameFile(r) ==
    /\ uploads[r].stage = "received"
    /\ uploads' = [uploads EXCEPT ![r].stage = "named",
                                  ![r].path = StoredName(clock, uploads[r].ext)]
    /\ UNCHANGED <<clock, disk, nonUploadVars>>

\* multer writes the uploaded file under that name
StoreFile(r) ==
    /\ uploads[r].stage = "named"
    /\ disk' = (uploads[r].path :> uploads[r].doc) @@ disk
    /\ uploads' = [uploads EXCEPT ![r].stage = "stored"]
    /\ UNCHANGED <<clock, nonUploadVars>>

\* the handler: parsePDF(req.file.path) and res.json({ ..., parsedContent })
ParseStoredFile(r) ==
    /\ uploads[r].stage = "stored"
    /\ uploads' = [uploads EXCEPT
                      ![r].stage = "answered",
                      ![r].answer = parsePDFText(disk[uploads[r].path])]
    /\ UNCHANGED <<clock, disk, nonUploadVars>>

NextUpload ==
    \/ Tick
    \/ \E r \in Requests : NameFile(r)
    \/ \E r \in Requests : StoreFile(r)
    \/ \E r \in Requests : ParseStoredFile(r)

SpecUpload == InitUpload /\ [][NextUpload]_vars

\* C16: in every interleaving of two upload requests, the parsed content
\* answered to a request is that of the file the request uploaded.
C16_AnswerFromOwnFile ==
    pc = "U_run" =>
        \A r \in Requests :
            uploads[r].stage = "answered"
                => uploads[r].answer = parsePDFText(uploads[r].doc)

\* two requests named in the same millisecond share one stored file
SameMillisecondSameFile ==
    /\ pc = "U_run"
    /\ uploads[1].stage = "answered"
    /\ uploads[2].stage = "answered"
    /\ uploads[1].path = uploads[2].path
    /\ uploads[1].doc # uploads[2].doc
    /\ uploads[1].answer = uploads[2].answer

\* requests stored under different names are answered from their own file
DistinctNamesOwnFile ==
    pc = "U_run" =>
        \A r \in Requests :
            (uploads[r].stage = "answered"
             /\ \A q \in Requests \ {r} : uploads[q].path # uploads[r].path)
                => uploads[r].answer = parsePDFText(uploads[r].doc)

-----------------------------------------------------------------------------
(* Strategy A: segments and blocks                                         *)

\* a segment that has a character other than white space
HasInk(seg) == \E k \in 1..Len(seg) : ~IsSpace(seg[k].c)

\* the positions, in order, of the segments of the text that are kept
RECURSIVE KeptFrom(_, _)
KeptFrom(segs, i) ==
    IF i > Len(segs) THEN <<>>
    ELSE (IF HasInk(segs[i]) THEN <<i>> ELSE <<>>) \o KeptFrom(segs, i + 1)

\* C17: there is exactly one block per blank-line-separated segment that is
\* not empty or whitespace-only, in the order of the segments (the text of
\* the k-th block is the trimmed k-th such segment, less its marker for a
\* bullet item), and nothing else; the empty text gives no block.
C17_OneBlockPerKeptSegment ==
    Classified =>
        LET segs == SplitBlank(text)
            kept == KeptFrom(segs, 1)
        IN  /\ Len(blocks) = Len(kept)
            /\ \A k \in 1..Len(kept) :
                   /\ blocks[k].type
                          \in {"heading_2", "bulleted_list_item", "paragraph"}
                   /\ blocks[k].text =
                          IF blocks[k].type = "bulleted_list_item"
                          THEN StripMarker(Trim(segs[kept[k]]))
                          ELSE Trim(segs[kept[k]])
            /\ text = <<>> => blocks = <<>>

\* four segments, two of them discarded, two blocks in segment order
C17_Witness ==
    /\ Classified
    /\ text = ScenarioSegments
    /\ Len(SplitBlank(text)) = 4
    /\ blocks = <<[type |-> "heading_2", text |-> Str(<<"a">>)],
                  [type |-> "paragraph", text |-> Str(<<"b", ".">>)]>>

-----------------------------------------------------------------------------
(* Strategy B: page layouts for line grouping and heading detection        *)

MaxLineFrags == 4

\* fragments of two texts on base lines 0, 2 and 5: differences of 2, 3, 5
LineFragSet ==
    {Frag(Str(<<s>>), y, 10) : s \in {"H", "7"}, y \in {0, 2, 5}}

LineDocs ==
    {Paginate(it, 1, <<>>) :
        it \in BoundedSeq(LineFragSet \cup {PageBreak}, MaxItems)}

\* the fragments of a middle line: a word, a blank, the text of the page's
\* first line; at the height limit and above it
MiddleFragSet ==
    {Frag(Str(<<s>>), 10, h) : s \in {"a", " ", "T"}, h \in {10, 12}}

\* one page of three lines: "T", a middle line, "E"
HeightDocs ==
    {<<[content |-> <<Frag(Str(<<"T">>), 0, 12)>> \o mid
                    \o <<Frag(Str(<<"E">>), 20, 10)>>]>> :
        mid \in BoundedSeq(MiddleFragSet, MaxLineFrags)}

InitBLayout ==
    /\ pc = "B_start"
    /\ pages \in LineDocs \cup HeightDocs
    /\ parsed = NoValue
    /\ IdleA
    /\ IdlePublish
    /\ IdleOther

SpecBLayout == InitBLayout /\ [][NextB]_vars

\* the lines of all pages, in page order then line order
AllLines == Flatten(AllPageBlocks(pages))

\* C18: on every page the lines are a partition of the page's fragments
\* into non-empty consecutive runs in the original order (no line spans two
\* pages, the last run is a line); two adjacent fragments of a page are in
\* the same line if and only if their y values differ by at most 2.  Every
\* emitted body block carries the text of one of these lines.
C18_LinesAreRunsWithinTolerance ==
    pc = "B_parsed" =>
        /\ \A p \in 1..Len(pages) :
               LET content == pages[p].content
                   lines == GroupLines(content)
               IN  /\ Flatten(lines) = content
                   /\ \A k \in 1..Len(lines) : lines[k] # <<>>
                   /\ \A k \in 1..Len(lines) :
                          \A i \in 1..(Len(lines[k]) - 1) :
                              LET d == lines[k][i + 1].y - lines[k][i].y
                              IN  d <= 2 /\ d >= -2
                   /\ \A k \in 1..(Len(lines) - 1) :
                          LET d == lines[k + 1][1].y
                                   - lines[k][Len(lines[k])].y
                          IN  d > 2 \/ d < -2
        /\ \A j \in 1..Len(BodyOf(parsed)) :
               \E k \in 1..Len(AllLines) :
                   BodyOf(parsed)[j].text = LineText(AllLines[k])

\* a first page with y = 0, 2, 5 gives two lines: the fragments 2 apart
\* together, the one 3 further alone as the last line; an empty page follows
C18_Witness ==
    /\ pc = "B_parsed"
    /\ Len(pages) = 2
    /\ Len(pages[1].content) = 3
    /\ pages[1].content[1].y = 0
    /\ pages[1].content[2].y = 2
    /\ pages[1].content[3].y = 5
    /\ Len(GroupLines(pages[1].content)) = 2
    /\ Len(GroupLines(pages[1].content)[1]) = 2
    /\ Len(GroupLines(pages[1].content)[2]) = 1
    /\ GroupLines(pages[2].content) = <<>>

\* the text t is reported as a repeated header or footer
ReportedRepeated(t) ==
    t \in SeqSet(parsed.metadata.repeatedHeaders)
          \cup SeqSet(parsed.metadata.repeatedFooters)

\* the heading rule of the claim for a line of k fragments
HeadingRule(line) ==
    LET k == Len(line)
        m == CHOOSE h \in {line[i].height : i \in 1..k} :
                 \A i \in 1..k : line[i].height <= h
        atMax == Cardinality({i \in 1..k : line[i].height = m})
    IN  atMax >= (k * 7) \div 10 /\ m > 10

RuleType(line) == IF HeadingRule(line) THEN "heading_2" ELSE "paragraph"

OneOfThreeIsParagraph ==
    /\ pc = "B_parsed"
    /\ Len(AllLines) = 3
    /\ Len(AllLines[2]) = 3
    /\ Cardinality({i \in 1..3 : AllLines[2][i].height = 12}) = 1
    /\ Len(BodyOf(parsed)) = 1
    /\ BodyOf(parsed)[1].type = "paragraph"

-----------------------------------------------------------------------------
(* Strategy B: assembly                                                    *)

\* C20: the emitted sequence is: one Paragraph with the first reported
\* repeated header, if any header is reported; then one block (a Heading or
\* a Paragraph) per line whose text is non-empty and no reported header or
\* footer, in page order then line order; then one Paragraph with the first
\* reported repeated footer, if any footer is reported; and nothing else.
C20_HeaderBodyFooter ==
    pc = "B_parsed" =>
        LET rh == parsed.metadata.repeatedHeaders
            rf == parsed.metadata.repeatedFooters
            Emitted(line) ==
                LineText(line) # <<>> /\ ~ReportedRepeated(LineText(line))
            ls == SelectSeq(AllLines, Emitted)
            h == IF rh # <<>> THEN 1 ELSE 0
            f == IF rf # <<>> THEN 1 ELSE 0
            out == parsed.blocks
        IN  /\ Len(out) = h + Len(ls) + f
            /\ h = 1 => out[1] = [type |-> "paragraph", text |-> rh[1]]
            /\ f = 1 => out[Len(out)] = [type |-> "paragraph", text |-> rf[1]]
            /\ \A j \in 1..Len(ls) :
                   /\ out[h + j].text = LineText(ls[j])
                   /\ out[h + j].type \in {"heading_2", "paragraph"}

\* a header, a body line and a footer, all different, on a page that also
\* has a line that is not emitted
C20_Witness ==
    /\ pc = "B_parsed"
    /\ Len(AllLines) = 4
    /\ Len(parsed.blocks) = 3
    /\ parsed.metadata.repeatedHeaders # <<>>
    /\ parsed.metadata.repeatedFooters # <<>>
    /\ parsed.blocks[1].text = parsed.metadata.repeatedHeaders[1]
    /\ parsed.blocks[3].text = parsed.metadata.repeatedFooters[1]
    /\ Cardinality({parsed.blocks[i].text : i \in 1..3}) = 3

\* three pages and no repeated line: the body blocks come in page order
BodyInPageOrder ==
    /\ pc = "B_parsed"
    /\ Len(pages) = 3
    /\ pages[1].content # <<>>
    /\ pages[2].content # <<>>
    /\ parsed.metadata.repeatedHeaders = <<>>
    /\ parsed.metadata.repeatedFooters = <<>>
    /\ Len(parsed.blocks) = 2
    /\ parsed.blocks[1].text = LineText(GroupLines(pages[1].content)[1])
    /\ parsed.blocks[2].text = LineText(GroupLines(pages[2].content)[1])
    /\ parsed.blocks[1].text # parsed.blocks[2].text

-----------------------------------------------------------------------------
(* Strategy B: the texts that reach the output                             *)

\* the texts of the emitted blocks
EmittedTexts == {parsed.blocks[i].text : i \in 1..Len(parsed.blocks)}

\* the non-empty line texts of the pages
PageLineTexts == {LineText(AllLines[i]) : i \in 1..Len(AllLines)} \ {<<>>}

\* the first reported header and the first reported footer
FirstReported ==
    LET rh == parsed.metadata.repeatedHeaders
        rf == parsed.metadata.repeatedFooters
    IN  (IF rh # <<>> THEN {rh[1]} ELSE {})
        \cup (IF rf # <<>> THEN {rf[1]} ELSE {})

\* C22: every non-empty line text of every page is the text of at least
\* one emitted block.
C22_NoLineTextLost ==
    pc = "B_parsed" => PageLineTexts \subseteq EmittedTexts

\* C22 as amended: a non-empty line text is the text of an emitted block
\* exactly if it is no reported header or footer, or is the first reported
\* header or the first reported footer; the other reported headers and
\* footers are in no block.
C22_OnlyLaterReportedLinesLost ==
    pc = "B_parsed" =>
        \A t \in PageLineTexts :
            t \in EmittedTexts
                <=> (~ReportedRepeated(t) \/ t \in FirstReported)

\* two pages with different lines: both texts are reported, the first one
\* is emitted (as header and as footer) and the other one is in no block
C22_Witness ==
    /\ pc = "B_parsed"
    /\ Len(pages) = 2
    /\ Len(parsed.metadata.repeatedHeaders) = 2
    /\ Cardinality(PageLineTexts) = 2
    /\ \E t \in PageLineTexts :
           ReportedRepeated(t) /\ t \notin FirstReported
           /\ t \notin EmittedTexts
    /\ \E t \in PageLineTexts : t \in FirstReported /\ t \in EmittedTexts

\* a line that is no reported header or footer is never lost
UnreportedLineKept ==
    /\ pc = "B_parsed"
    /\ \E t \in PageLineTexts : ~ReportedRepeated(t) /\ t \in EmittedTexts
    /\ \E t \in PageLineTexts : ReportedRepeated(t) /\ t \notin EmittedTexts

-----------------------------------------------------------------------------
(* The client: operations in flight                                        *)

UploadInFlight == upload # NoValue

SendInFlight == sending # NoValue

\* isLoading is true exactly while handleUpload or handleSendToNotion is in
\* flight, and they are never in flight together
LoadingIffOneInFlight ==
    /\ isLoading <=> (UploadInFlight \/ SendInFlight)
    /\ ~(UploadInFlight /\ SendInFlight)

\* a step that starts handleUpload or issues the publish request
StartsOperation ==
    \/ convs' # convs
    \/ Len(steps') = Len(steps) + 1 /\ steps'[Len(steps')].step = "publish"

\* a step in which handleUpload or handleSendToNotion returns
EndsOperation ==
    \/ UploadInFlight /\ upload' = NoValue
    \/ SendInFlight /\ sending' = NoValue

\* C23: at most one of handleUpload and handleSendToNotion is in flight;
\* isLoading is true exactly while one of them is; neither is started while
\* isLoading is true; isLoading is false when the operation has ended, on
\* every path.
C23_OneOperationInFlight ==
    /\ []LoadingIffOneInFlight
    /\ [][StartsOperation => ~isLoading /\ isLoading']_vars
    /\ [][EndsOperation => ~isLoading']_vars

\* a publish request is in flight and a file is selected, after one
\* conversion returned early for want of text and another one completed
C23_Witness ==
    /\ SendInFlight
    /\ isLoading
    /\ Truthy(file)
    /\ StepCount(1, "extract_done") = 1
    /\ StepCount(1, "generate") = 0
    /\ StepCount(2, "classify_done") = 1

-----------------------------------------------------------------------------
(* The client: the stored content and the stored blocks                    *)

\* a step that issues the publish request
IssuesPublish ==
    /\ Len(steps') = Len(steps) + 1
    /\ steps'[Len(steps')].step = "publish"

\* the stored content and the stored blocks come from the same conversion
SameConversion ==
    /\ processedBlocks # NoValue
    /\ producedBy.content >= 1
    /\ producedBy.blocks = producedBy.content

\* C24: whenever parsedContent is non-null, processedBlocks is non-null and
\* both were stored by the same conversion; a publish request carries the
\* first blocks of the conversion whose content is stored when it is issued.
C24_ContentAndBlocksOfOneConversion ==
    /\ [](parsedContent # NoValue => SameConversion)
    /\ [][IssuesPublish =>
              /\ parsedContent # NoValue
              /\ SameConversion
              /\ steps'[Len(steps')].conv = producedBy.content
              /\ sending'.blocks.items
                     = Slice(processedBlocks.items, 0, ClientBlockLimit)]_vars

\* the second conversion is being published after the first one was; its
\* classifier made blocks
C24_Witness ==
    /\ sending # NoValue
    /\ parsedContent # NoValue
    /\ producedBy = [content |-> 2, blocks |-> 2]
    /\ StepCount(1, "publish") = 1
    /\ StepCount(2, "publish") = 1
    /\ processedBlocks.items # <<>>
    /\ sending.blocks = processedBlocks

\* after a file selection the blocks of the last conversion stay stored
\* without its content; the send button is not rendered then
StaleBlocksWithoutContent ==
    /\ parsedContent = NoValue
    /\ processedBlocks # NoValue
    /\ producedBy.blocks = 1
    /\ Truthy(file)
    /\ ~SendEnabled

-----------------------------------------------------------------------------
(* The client: the selected file and the title of a publish request        *)

\* a step of handleUpload that stores the parsed content
StoresContent == UploadInFlight /\ parsedContent' # NoValue

\* the title a publish request has without a selected file
TitleWithoutFile ==
    IF Truthy(parsedContent.metadata.title) THEN parsedContent.metadata.title
    ELSE "PDF to Notion Page"

\* C25: whenever parsedContent is non-null no file is selected; the step
\* that stores the content of a conversion leaves no file selected, whatever
\* file was selected in the meantime; the title of every publish request is
\* the metadata title of the stored content or, without one, the literal
\* 'PDF to Notion Page', and no file name.
C25_ContentMeansNoFile ==
    /\ [](parsedContent # NoValue => file = Null)
    /\ [][StoresContent => file' = Null]_vars
    /\ [][IssuesPublish =>
              /\ sending'.title = TitleWithoutFile
              /\ sending'.title \notin FileNames]_vars

\* a publish request with the literal title is in flight: the content of
\* the second conversion has no metadata title
C25_Witness ==
    /\ sending # NoValue
    /\ parsedContent # NoValue
    /\ parsedContent.metadata.title = Null
    /\ sending.title = "PDF to Notion Page"
    /\ file = Null
    /\ producedBy.content = 2

\* another file is selected while a conversion is in flight
OtherFileSelectedInFlight ==
    /\ UploadInFlight
    /\ upload.stage = "generating"
    /\ upload.answer.arrived
    /\ upload.answer.ok
    /\ upload.answer.hasText
    /\ Truthy(file)
    /\ file # upload.file

====
